---- MODULE Spec2Model ----
(***************************************************************************)
(* Model of git-worktree-manager: the `wt clean`, `wt list` and            *)
(* `wt remove` commands (commands/clean.ts, commands/list.ts,              *)
(* commands/remove.ts) over the helpers of utils/git.ts and                *)
(* utils/github.ts, and those helpers called on their own (listWorktrees,  *)
(* getMainWorktreePath, isPathInWorktree, hasUnpushedCommits,              *)
(* getAheadBehind, getPRStatus, the scans of clean).                       *)
(*                                                                         *)
(* Paths, branch names and directory names are strings, and                *)
(* String.prototype.includes / startsWith and node:path's dirname /        *)
(* basename / join are computed on their characters with Len, SubSeq and   *)
(* \o, as the program computes them.                                       *)
(***************************************************************************)
EXTENDS Integers, Sequences, FiniteSets, TLC

VARIABLES
    worktrees,        \* git's worktree registry: what `git worktree list --porcelain` yields
    fs,               \* the directories of interest on disk: path -> kind of entry
    branches,         \* local branches of the repository
    currentPath,      \* `git rev-parse --show-toplevel` of the caller's directory
    precond,          \* outcome of the gh / remote probes at the head of clean
    cmd,              \* the command invoked
    options,          \* its flags
    pc,               \* position of the command's handler
    gathered,         \* per worktree path: what the remote lookup and the status query answered;
                      \* remove: what was found out about the matched worktree
    cleanable,        \* clean: CleanableWorktree[]
    skipped,          \* clean: cleanable.filter(hasUncommittedChanges)
    toRemove,         \* clean: cleanable.filter(!hasUncommittedChanges)
    choices,          \* clean: the checkbox choices (their values); remove: the options of
                      \* the prompt shown
    selectedItems,    \* clean: the values selected (by the operator or by --force);
                      \* remove: the operator's answers so far
    idx,              \* clean: position of the removal loop in selectedItems
    counters,         \* clean: removed, failed, abandonedRemoved, ... of the removal loop
    ops,              \* every mutating external call made so far, in call order
    exitCode,         \* -1 while running, else the process's exit code
    output,           \* list: the rows printed
    helper,           \* the helper function under call, "none" inside a command
    args,             \* what the helper under call is given or reads; remove: <name>
    ret               \* what the helper under call returned

vars == <<worktrees, fs, branches, currentPath, precond, cmd, options, pc, gathered,
          cleanable, skipped, toRemove, choices, selectedItems, idx, counters, ops,
          exitCode, output, helper, args, ret>>

\* the variables of the command handlers
commandVars == <<worktrees, fs, branches, currentPath, precond, cmd, options, gathered,
                 cleanable, skipped, toRemove, choices, selectedItems, idx, counters,
                 ops, exitCode, output>>

\* the variables of a helper's call
helperVars == <<helper, args, ret>>

----------------------------------------------------------------------------
(* Bounds of the model *)

\* at most this many secondary worktrees are registered
MaxWorktrees == 1

----------------------------------------------------------------------------
(* Strings *)

startsWith(s, prefix) ==
    /\ Len(prefix) <= Len(s)
    /\ SubSeq(s, 1, Len(prefix)) = prefix

includes(s, sub) ==
    \E i \in 0..(Len(s) - Len(sub)) : SubSeq(s, i + 1, i + Len(sub)) = sub

CharAt(s, i) == SubSeq(s, i, i)

\* index of the last "/" of p, 0 when there is none
LastSlash(p) ==
    LET at == {i \in 1..Len(p) : CharAt(p, i) = "/"}
    IN  IF at = {} THEN 0 ELSE CHOOSE i \in at : \A j \in at : j <= i

\* node:path dirname, on normalized absolute paths
dirname(p) ==
    LET i == LastSlash(p)
    IN  IF i = 0 THEN "."
        ELSE IF i = 1 THEN "/"
        ELSE SubSeq(p, 1, i - 1)

\* node:path basename
basename(p) == SubSeq(p, LastSlash(p) + 1, Len(p))

\* node:path join of a directory and one name
join(dir, name) ==
    IF dir # "" /\ CharAt(dir, Len(dir)) = "/" THEN dir \o name ELSE dir \o "/" \o name

----------------------------------------------------------------------------
(* The environment: a repository /h/r and the directories around it *)

MainPath == "/h/r"
MainBranch == "main"
NoBranch == ""

\* the literal `-worktrees` of `${repoName}-worktrees`
WorktreesSuffix == "-worktrees"

\* the worktrees directory of the repository
RootDir == "/h/r-worktrees"

PathA  == "/h/r-worktrees/a"
\* a worktree placed inside the worktree at PathA
PathN  == "/h/r-worktrees/a/n"
\* never registered
PathD  == "/h/r-worktrees/d"
\* in a sibling directory
PathX  == "/h/r-worktrees2/c"

\* the paths a secondary worktree may be registered at, in listing order
SecondaryPaths == <<PathA, PathN, PathX>>

\* the directories whose state on disk the model follows, in readdir order
DiskPaths == <<PathA, PathN, PathD, PathX>>

Range(s) == {s[i] : i \in 1..Len(s)}

\* kinds of a directory entry:
\*   absent  - nothing there
\*   healthy - a directory whose .git file names a gitdir that exists
\*   nogit   - a directory without .git
\*   orphan  - a directory whose .git file names a gitdir that does not exist
Kinds == {"absent", "healthy", "nogit", "orphan"}

IsDirectory(k) == k \in {"healthy", "nogit", "orphan"}
HasDotGit(k) == k \in {"healthy", "orphan"}
DotGitIsFile(k) == k \in {"healthy", "orphan"}
GitdirMatches(k) == k \in {"healthy", "orphan"}
GitdirExists(k) == k = "healthy"

----------------------------------------------------------------------------
(* utils/git.ts *)

\* the test the filters of clean and remove apply to each record
InWorktreesDir(path, worktreesDir) == includes(path, worktreesDir)

\* mutant of isPathInWorktree: only a path strictly inside the worktree counts
isPathInWorktree_StrictlyInside(cur, worktreePath) ==
    startsWith(cur, worktreePath \o "/")

\* mutant of isPathInWorktree: the match must end at the end of a path component
isPathInWorktree_WholeComponents(cur, worktreePath) ==
    cur = worktreePath \/ startsWith(cur, worktreePath \o "/")

isPathInWorktree(cur, worktreePath) == startsWith(cur, worktreePath)

\* outcomes of `git -C <path> status --porcelain`: no output, some output, non-zero
\* exit. In a directory without .git, git looks for a repository in the parent
\* directories and reports on that one if there is one; a .git file naming a
\* gitdir that is gone makes git exit non-zero.
StatusOutcomes(k) == IF k \in {"healthy", "nogit"} THEN {"clean", "dirty", "fail"} ELSE {"fail"}

hasUncommittedChanges(status) ==
    IF status = "fail" THEN FALSE ELSE status = "dirty"

IsSpace(c) == c \in {" ", "\n", "\t", "\r"}

\* String.prototype.split(sep), sep one character
RECURSIVE split(_, _)
split(s, sep) ==
    LET at == {i \in 1..Len(s) : CharAt(s, i) = sep}
    IN  IF at = {} THEN <<s>>
        ELSE LET i == CHOOSE j \in at : \A k \in at : j <= k
             IN  <<SubSeq(s, 1, i - 1)>> \o split(SubSeq(s, i + 1, Len(s)), sep)

\* every line of an output ends in a newline
RECURSIVE Unlines(_)
Unlines(lines) ==
    IF lines = <<>> THEN "" ELSE lines[1] \o "\n" \o Unlines(Tail(lines))

RECURSIVE Spaces(_)
Spaces(n) == IF n <= 0 THEN "" ELSE " " \o Spaces(n - 1)

Longest(wts) ==
    CHOOSE n \in {Len(wts[i].path) : i \in 1..Len(wts)} :
        \A i \in 1..Len(wts) : Len(wts[i].path) <= n

\* `git worktree list`: one line per worktree, the paths padded to one column
PlainLine(wt, width) ==
    wt.path \o Spaces(width - Len(wt.path) + 1) \o
    (IF wt.head = "bare" THEN "(bare)"
     ELSE wt.commit \o (IF wt.head = "detached" THEN " (detached HEAD)"
                        ELSE " [" \o wt.branch \o "]"))

\* String.prototype.split(/\s+/)[0]: what stands before the first whitespace
FirstField(line) ==
    LET at == {i \in 1..Len(line) : IsSpace(CharAt(line, i))}
    IN  IF at = {} THEN line
        ELSE SubSeq(line, 1, (CHOOSE i \in at : \A j \in at : i <= j) - 1)

\* getMainWorktreePath on the output of `git worktree list`
getMainWorktreePath(stdout) == FirstField(split(stdout, "\n")[1])

\* `git worktree list` for the registered worktrees
GitWorktreeList(wts) ==
    Unlines([i \in 1..Len(wts) |->
               PlainLine([path |-> wts[i].path,
                          head |-> IF wts[i].branch = NoBranch THEN "detached" ELSE "branch",
                          branch |-> wts[i].branch,
                          commit |-> "c0"],
                         Longest(wts))])

\* getRepoName: the last component of what getMainWorktreePath returns
getRepoName(wts) == basename(getMainWorktreePath(GitWorktreeList(wts)))

----------------------------------------------------------------------------
(* utils/github.ts *)

\* at most this many check runs on a head commit
MaxRuns == 2

\* conclusions of a check run ("null" while it is running)
Conclusions == {"success", "failure", "neutral", "null"}

RunLists == UNION {[1..n -> Conclusions] : n \in 0..MaxRuns}

\* what GitHub answers one getPRStatus call: the token cannot be had ("token-fail"),
\* the pull-request listing fails ("fail") or is empty ("none"), or the most recent
\* request is found, with its merge timestamp set or not, its lifecycle state, its
\* draft mark, and the check runs of its head commit (or a failing lookup of them)
PrResponses ==
    {[res |-> r, merged_at |-> FALSE, state |-> "open", draft |-> FALSE,
      checksFail |-> TRUE, conclusions |-> <<>>] : r \in {"token-fail", "fail", "none"}}
    \cup
    {[res |-> "found", merged_at |-> m, state |-> st, draft |-> d,
      checksFail |-> f, conclusions |-> c] :
        m \in BOOLEAN, st \in {"open", "closed"}, d \in BOOLEAN,
        f \in BOOLEAN, c \in RunLists}

\* the answers clean tells apart: it reads the state only
PrLookups ==
    {lk \in PrResponses :
        /\ ~lk.draft /\ lk.checksFail /\ lk.conclusions = <<>>
        /\ lk.merged_at => lk.state = "closed"}

PrNull == [isNull |-> TRUE, state |-> "none", isDraft |-> FALSE, checksStatus |-> "none"]

\* mutant of prState: the lifecycle state is read before the merge timestamp
prState_LifecycleFirst(pr) ==
    IF pr.state = "closed" THEN "closed"
    ELSE IF pr.merged_at THEN "merged"
    ELSE "open"

\* getPRStatus: state
prState(pr) ==
    IF pr.merged_at THEN "merged"
    ELSE IF pr.state = "closed" THEN "closed"
    ELSE "open"

\* mutant of checksStatusOf: success is tested before failure
checksStatusOf_SuccessFirst(pr) ==
    IF pr.checksFail THEN "none"
    ELSE IF Len(pr.conclusions) > 0
    THEN IF \E i \in 1..Len(pr.conclusions) : pr.conclusions[i] = "success"
         THEN "success"
         ELSE IF \E i \in 1..Len(pr.conclusions) : pr.conclusions[i] = "failure"
         THEN "failure"
         ELSE "pending"
    ELSE "none"

\* getPRStatus: checksStatus
checksStatusOf(pr) ==
    IF pr.checksFail THEN "none"
    ELSE IF Len(pr.conclusions) > 0
    THEN IF \E i \in 1..Len(pr.conclusions) : pr.conclusions[i] = "failure"
         THEN "failure"
         ELSE IF \A i \in 1..Len(pr.conclusions) : pr.conclusions[i] = "success"
         THEN "success"
         ELSE "pending"
    ELSE "none"

getPRStatus(lk) ==
    IF lk.res # "found" THEN PrNull
    ELSE [isNull |-> FALSE,
          state |-> prState(lk),
          isDraft |-> lk.draft,
          checksStatus |-> checksStatusOf(lk)]

----------------------------------------------------------------------------
(* commands/clean.ts: the scans of the worktrees directory *)

\* readdirSync(dir), each entry joined to dir
readdirSync(f, dir) ==
    SelectSeq(DiskPaths, LAMBDA p : dirname(p) = dir /\ f[p] # "absent")

IsAbandoned(k) == IsDirectory(k) /\ ~HasDotGit(k)

IsOrphan(k) ==
    /\ IsDirectory(k)
    /\ HasDotGit(k)
    /\ DotGitIsFile(k)
    /\ GitdirMatches(k)
    /\ ~GitdirExists(k)

\* One entry of the worktrees directory as the scans meet it:
\*   stat     - statSync(fullPath): "dir", "file", or "throws" (a dangling link, an
\*              entry that cannot be accessed)
\*   git      - fullPath/.git: "none" (existsSync false), "file", "dir", or "throws"
\*              (it exists and statSync throws)
\*   content  - the .git file: a `gitdir:` line with an absolute target ("abs") or a
\*              relative one ("rel"), no such line ("nomatch"), or unreadable ("throws")
\*   gitdir   - the target as written
\*   fromCwd  - the target exists when resolved by the process (from its cwd)
\*   fromDir  - the target exists when resolved from the entry's directory
EntryOf(p, k) ==
    [path |-> p,
     stat |-> "dir",
     git |-> IF HasDotGit(k) THEN "file" ELSE "none",
     content |-> "abs",
     gitdir |-> "/gone",
     fromCwd |-> GitdirExists(k),
     fromDir |-> GitdirExists(k)]

\* the entries of dir, in readdir order
EntriesOf(f, dir) ==
    LET names == readdirSync(f, dir)
    IN  [i \in 1..Len(names) |-> EntryOf(names[i], f[names[i]])]

\* mutant of AbandonedEntry: every directory counts
AbandonedEntry_AnyDirectory(e) == e.stat = "dir"

\* findAbandonedFolders: the entry is pushed
AbandonedEntry(e) == e.stat = "dir" /\ e.git = "none"

\* existsSync(gitdir), the path handed over as written
existsSync(e) == e.fromCwd

\* findOrphanWorktrees: the entry is pushed
OrphanEntry(e) ==
    /\ e.stat = "dir"
    /\ e.git = "file"
    /\ e.content \in {"abs", "rel"}
    /\ ~existsSync(e)

\* the loop of findAbandonedFolders from entry i on; a statSync that throws leaves
\* the loop for the catch around it
RECURSIVE ScanAbandoned(_, _, _)
ScanAbandoned(entries, i, abandoned) ==
    IF i > Len(entries) THEN abandoned
    ELSE IF entries[i].stat = "throws" THEN abandoned
    ELSE ScanAbandoned(entries, i + 1,
            IF AbandonedEntry(entries[i])
            THEN Append(abandoned,
                        [type |-> "abandoned",
                         data |-> [path |-> entries[i].path,
                                   dirname |-> basename(entries[i].path)]])
            ELSE abandoned)

\* the loop of findOrphanWorktrees from entry i on; statSync of the entry or of its
\* .git throwing leaves the loop, an unreadable .git file is passed over
RECURSIVE ScanOrphans(_, _, _)
ScanOrphans(entries, i, orphans) ==
    IF i > Len(entries) THEN orphans
    ELSE IF entries[i].stat = "throws" THEN orphans
    ELSE IF entries[i].stat = "dir" /\ entries[i].git = "throws" THEN orphans
    ELSE ScanOrphans(entries, i + 1,
            IF OrphanEntry(entries[i])
            THEN Append(orphans,
                        [type |-> "orphan",
                         data |-> [path |-> entries[i].path,
                                   dirname |-> basename(entries[i].path),
                                   brokenGitdir |-> entries[i].gitdir]])
            ELSE orphans)

findAbandonedFolders(f, worktreesDir) ==
    ScanAbandoned(EntriesOf(f, worktreesDir), 1, <<>>)

findOrphanWorktrees(f, worktreesDir) ==
    ScanOrphans(EntriesOf(f, worktreesDir), 1, <<>>)

----------------------------------------------------------------------------
(* commands/clean.ts: classification *)

WorktreesDirOf(wts) ==
    join(dirname(wts[1].path), getRepoName(wts) \o WorktreesSuffix)

\* Array.prototype.filter with the handlers' test
FilterInDir(wts, worktreesDir) ==
    SelectSeq(wts, LAMBDA wt : InWorktreesDir(wt.path, worktreesDir))

filteredWorktrees(wts) == FilterInDir(wts, WorktreesDirOf(wts))

\* the records of the gathering loop that reach the remote lookup
Looked(wts, cur) ==
    SelectSeq(filteredWorktrees(wts),
              LAMBDA wt : wt.branch # NoBranch /\ ~isPathInWorktree(cur, wt.path))

\* mutant of IsStale: a lookup without an answer counts as stale
IsStale_NoAnswerIsStale(pr) == pr.isNull \/ pr.state \in {"merged", "closed"}

IsStale(pr) == ~pr.isNull /\ pr.state \in {"merged", "closed"}

\* what the two external queries of one loop iteration may answer
GatherOutcomes(k) ==
    {[lookup |-> l, status |-> "unasked"] : l \in {x \in PrLookups : ~IsStale(getPRStatus(x))}}
    \cup
    {[lookup |-> l, status |-> s] :
        l \in {x \in PrLookups : IsStale(getPRStatus(x))}, s \in StatusOutcomes(k)}

cleanableOf(looked, g) ==
    LET stale == SelectSeq(looked,
                           LAMBDA wt : IsStale(getPRStatus(g[wt.path].lookup)))
    IN  [i \in 1..Len(stale) |->
            [path |-> stale[i].path,
             dirname |-> basename(stale[i].path),
             branch |-> stale[i].branch,
             prState |-> getPRStatus(g[stale[i].path].lookup).state,
             hasUncommittedChanges |-> hasUncommittedChanges(g[stale[i].path].status)]]

skippedOf(cl) == SelectSeq(cl, LAMBDA w : w.hasUncommittedChanges)

\* mutant of toRemoveOf: the changes flag is not consulted
toRemoveOf_Unfiltered(cl) == cl

toRemoveOf(cl) == SelectSeq(cl, LAMBDA w : ~w.hasUncommittedChanges)

choicesOf(tr, abandonedFolders, orphanWorktrees) ==
    [i \in 1..Len(tr) |-> [type |-> "worktree", data |-> tr[i]]]
        \o abandonedFolders \o orphanWorktrees

----------------------------------------------------------------------------
(* Initial states: a repository, its worktrees directory and one invocation *)

ZeroCounters ==
    [removed |-> 0, failed |-> 0, abandonedRemoved |-> 0, abandonedFailed |-> 0,
     orphanRemoved |-> 0, orphanFailed |-> 0]

\* the branch checked out in the worktree registered at p
BranchAt(p) == basename(p)

\* the registry with the secondary worktrees at the paths `at`, those of `detached`
\* having no branch line
Registry(at, detached) ==
    LET paths == SelectSeq(SecondaryPaths, LAMBDA p : p \in at)
    IN  <<[path |-> MainPath, branch |-> MainBranch]>> \o
        [i \in 1..Len(paths) |->
            [path |-> paths[i],
             branch |-> IF paths[i] \in detached THEN NoBranch ELSE BranchAt(paths[i])]]

\* a registered worktree is a directory (whose .git may have been deleted or may
\* name a gitdir that is gone); an unregistered directory of the worktrees
\* directory is a leftover or not there; elsewhere the model follows intact
\* worktrees only; a directory exists if something exists inside it
DiskStates(at) ==
    {f \in [Range(DiskPaths) -> Kinds] :
        \A p \in Range(DiskPaths) :
            /\ p \in at => f[p] # "absent"
            /\ p \notin at => f[p] # "healthy"
            /\ dirname(p) # RootDir => f[p] = (IF p \in at THEN "healthy" ELSE "absent")
            /\ \A q \in Range(DiskPaths) :
                 f[q] # "absent" /\ startsWith(q, p \o "/") => f[p] # "absent"}

\* what the head of a handler meets: everything in order, gh not installed, gh
\* not logged in, `git worktree list` exiting non-zero, `git worktree list`
\* printing nothing that yields a record, an origin that is not on GitHub, no origin
Preconds ==
    {"ok", "gh-missing", "gh-unauthenticated", "git-failed", "git-empty", "not-github",
     "no-remote"}

Init ==
    /\ \E at \in SUBSET Range(SecondaryPaths) :
         /\ Cardinality(at) <= MaxWorktrees
         /\ \E detached \in SUBSET at :
              /\ worktrees = Registry(at, detached)
              /\ branches = {MainBranch} \cup {BranchAt(p) : p \in at \ detached}
         /\ fs \in DiskStates(at)
         /\ currentPath \in {MainPath} \cup {p \in at : fs[p] = "healthy"}
    /\ precond \in Preconds
    /\ cmd = "clean"
    /\ options \in [dryRun : BOOLEAN, force : BOOLEAN]
    /\ pc = "start"
    /\ gathered = <<>>
    /\ cleanable = <<>>
    /\ skipped = <<>>
    /\ toRemove = <<>>
    /\ choices = <<>>
    /\ selectedItems = <<>>
    /\ idx = 1
    /\ counters = ZeroCounters
    /\ ops = <<>>
    /\ exitCode = -1
    /\ output = <<>>
    /\ helper = "none"
    /\ args = <<>>
    /\ ret = <<>>

----------------------------------------------------------------------------
(* commands/clean.ts: the handler *)

Exit(code) ==
    /\ pc' = "done"
    /\ exitCode' = code

\* --force selects every choice
ForceSelection(ch) == ch

\* mutant of DryRunReturns: --force overrides --dry-run
DryRunReturns_UnlessForce(o) == o.dryRun /\ ~o.force

\* --dry-run returns after the listing
DryRunReturns(o) == o.dryRun

\* From the gh probes to the choices: probes, inventory, filter, gathering loop,
\* partition, scans, choices, and the returns before the prompt.
CleanScan ==
    /\ pc = "start"
    /\ cmd = "clean"
    /\ UNCHANGED <<worktrees, fs, branches, currentPath, precond, cmd, options, idx,
                   counters, ops>>
    /\ UNCHANGED <<output, helperVars>>
    /\ IF precond # "ok"
       THEN /\ Exit(1)
            /\ UNCHANGED <<gathered, cleanable, skipped, toRemove, choices, selectedItems>>
       ELSE IF Len(filteredWorktrees(worktrees)) = 0
       THEN /\ Exit(0)
            /\ UNCHANGED <<gathered, cleanable, skipped, toRemove, choices, selectedItems>>
       ELSE \E looked \in {Looked(worktrees, currentPath)},
               worktreesDir \in {WorktreesDirOf(worktrees)} :
            LET at == {looked[i].path : i \in 1..Len(looked)}
            IN  \E g \in [at -> UNION {GatherOutcomes(k) : k \in Kinds}] :
                  /\ \A p \in at : g[p] \in GatherOutcomes(fs[p])
                  /\ LET cl == cleanableOf(looked, g)
                         sk == skippedOf(cl)
                         tr == toRemoveOf(cl)
                         ab == findAbandonedFolders(fs, worktreesDir)
                         orph == findOrphanWorktrees(fs, worktreesDir)
                         ch == IF Len(cl) = 0 /\ Len(ab) = 0 /\ Len(orph) = 0
                               THEN <<>>
                               ELSE choicesOf(tr, ab, orph)
                     IN  /\ gathered' = g
                         /\ cleanable' = cl
                         /\ skipped' = sk
                         /\ toRemove' = tr
                         /\ choices' = ch
                         /\ IF Len(ch) = 0
                            THEN Exit(0) /\ selectedItems' = <<>>
                            ELSE IF DryRunReturns(options)
                            THEN Exit(0) /\ selectedItems' = <<>>
                            ELSE IF options.force
                            THEN /\ selectedItems' = ForceSelection(ch)
                                 /\ pc' = "loop"
                                 /\ UNCHANGED exitCode
                            ELSE /\ selectedItems' = <<>>
                                 /\ pc' = "prompt"
                                 /\ UNCHANGED exitCode

\* the subsequence of s at the positions `keep`
Pick(s, keep) ==
    LET F[i \in 0..Len(s)] ==
            IF i = 0 THEN <<>>
            ELSE IF i \in keep THEN Append(F[i - 1], s[i]) ELSE F[i - 1]
    IN  F[Len(s)]

\* the checkbox prompt: the operator ticks any choices and confirms
CleanSelect ==
    /\ pc = "prompt"
    /\ \E keep \in SUBSET (1..Len(choices)) :
         /\ selectedItems' = Pick(choices, keep)
         /\ IF keep = {}
            THEN Exit(0)
            ELSE pc' = "loop" /\ UNCHANGED exitCode
    /\ UNCHANGED <<worktrees, fs, branches, currentPath, precond, cmd, options, gathered,
                   cleanable, skipped, toRemove, choices, idx, counters, ops>>
    /\ UNCHANGED <<output, helperVars>>

\* the operator leaves the prompt with Ctrl-C: the prompt rejects, the handler's
\* catch reports the error and exits 1
CleanCancel ==
    /\ pc = "prompt"
    /\ Exit(1)
    /\ UNCHANGED <<worktrees, fs, branches, currentPath, precond, cmd, options, gathered,
                   cleanable, skipped, toRemove, choices, selectedItems, idx, counters,
                   ops>>
    /\ UNCHANGED <<output, helperVars>>

----------------------------------------------------------------------------
(* commands/clean.ts: the removal loop *)

\* one external call: what was called, on which path or branch, with the force
\* flag or not, whether it succeeded, and the loop iteration that made it
Call(op, arg, force, ok, item) ==
    [op |-> op, arg |-> arg, force |-> force, ok |-> ok, item |-> item]

IsRegistered(wts, path) == \E i \in 1..Len(wts) : wts[i].path = path

\* `git worktree remove <path>` can succeed only on a registered worktree whose
\* directory is intact; it may fail on any (locked, modified, ...)
CanRemoveWorktree(wts, f, path) ==
    /\ IsRegistered(wts, path)
    /\ path \in DOMAIN f
    /\ f[path] = "healthy"

\* mutant of WorktreeItem: the branch is deleted whether or not the worktree
\* removal succeeded, and a failed deletion counts the item as failed
WorktreeItem_BranchAnyway(wt, i, rmOk, brOk) ==
    [calls |-> <<Call("removeWorktree", wt.path, FALSE, rmOk, i),
                 Call("deleteBranch", wt.branch, TRUE, brOk /\ rmOk, i)>>,
     counter |-> IF rmOk /\ brOk THEN "removed" ELSE "failed"]

\* the external calls one 'worktree' item makes, and the counter it bumps, given
\* whether the worktree removal and the branch deletion succeed
WorktreeItem(wt, i, rmOk, brOk) ==
    IF rmOk
    THEN [calls |-> <<Call("removeWorktree", wt.path, FALSE, TRUE, i),
                      Call("deleteBranch", wt.branch, TRUE, brOk, i)>>,
          counter |-> "removed"]
    ELSE [calls |-> <<Call("removeWorktree", wt.path, FALSE, FALSE, i)>>,
          counter |-> "failed"]

\* mutant of FolderItem: a failed `rm -rf` is counted as a removal
FolderItem_CountsRemoved(item, i, ok) ==
    [calls |-> <<Call("rm", item.data.path, TRUE, ok, i)>>,
     counter |-> IF item.type = "abandoned" THEN "abandonedRemoved" ELSE "orphanRemoved"]

\* the same for an 'abandoned' or 'orphan' item: one `rm -rf <path>`
FolderItem(item, i, ok) ==
    [calls |-> <<Call("rm", item.data.path, TRUE, ok, i)>>,
     counter |-> IF item.type = "abandoned"
                 THEN (IF ok THEN "abandonedRemoved" ELSE "abandonedFailed")
                 ELSE (IF ok THEN "orphanRemoved" ELSE "orphanFailed")]

\* the effect of one call on the registry, the disk and the branches
RegistryAfter(wts, c) ==
    IF c.op \in {"removeWorktree", "pruneWorktrees"} /\ c.ok
    THEN SelectSeq(wts, LAMBDA wt : wt.path # c.arg)
    ELSE wts

\* a removed directory is gone with everything inside it
DiskAfter(f, c) ==
    IF c.op \in {"removeWorktree", "rm", "forceRemoveDirectory"} /\ c.ok
    THEN [q \in DOMAIN f |->
            IF q = c.arg \/ startsWith(q, c.arg \o "/") THEN "absent" ELSE f[q]]
    ELSE f

BranchesAfter(bs, c) ==
    IF c.op = "deleteBranch" /\ c.ok THEN bs \ {c.arg} ELSE bs

RECURSIVE RegistryAfterAll(_, _)
RegistryAfterAll(wts, calls) ==
    IF calls = <<>> THEN wts
    ELSE RegistryAfterAll(RegistryAfter(wts, Head(calls)), Tail(calls))

RECURSIVE DiskAfterAll(_, _)
DiskAfterAll(f, calls) ==
    IF calls = <<>> THEN f
    ELSE DiskAfterAll(DiskAfter(f, Head(calls)), Tail(calls))

RECURSIVE BranchesAfterAll(_, _)
BranchesAfterAll(bs, calls) ==
    IF calls = <<>> THEN bs
    ELSE BranchesAfterAll(BranchesAfter(bs, Head(calls)), Tail(calls))

\* mutant of LoopItems: the loop runs over every choice
LoopItems_AllChoices == choices

\* the loop iterates over the selected items
LoopItems == selectedItems

\* one iteration of `for (const item of selectedItems)`; after the last one the
\* summary is printed and the handler returns
CleanRemoveItem ==
    /\ pc = "loop"
    /\ idx <= Len(LoopItems)
    /\ LET item == LoopItems[idx]
           rmCan == item.type = "worktree"
                    /\ CanRemoveWorktree(worktrees, fs, item.data.path)
           brCan == item.type = "worktree" /\ item.data.branch \in branches
       IN  \E rmOk \in BOOLEAN, brOk \in BOOLEAN :
             LET r == IF item.type = "worktree"
                      THEN WorktreeItem(item.data, idx, rmOk, brOk)
                      ELSE FolderItem(item, idx, rmOk)
             IN
             /\ item.type = "worktree" => (rmOk => rmCan) /\ (brOk => brCan)
             /\ ops' = ops \o r.calls
             /\ counters' = [counters EXCEPT ![r.counter] = @ + 1]
             /\ worktrees' = RegistryAfterAll(worktrees, r.calls)
             /\ fs' = DiskAfterAll(fs, r.calls)
             /\ branches' = BranchesAfterAll(branches, r.calls)
    /\ idx' = idx + 1
    /\ IF idx = Len(LoopItems)
       THEN Exit(0)
       ELSE UNCHANGED <<pc, exitCode>>
    /\ UNCHANGED <<currentPath, precond, cmd, options, gathered, cleanable, skipped,
                   toRemove, choices, selectedItems>>
    /\ UNCHANGED <<output, helperVars>>

----------------------------------------------------------------------------

Next ==
    \/ CleanScan
    \/ CleanSelect
    \/ CleanCancel
    \/ CleanRemoveItem

Spec == Init /\ [][Next]_vars

----------------------------------------------------------------------------
(* Vocabulary of the properties *)

\* the handler of clean has passed its probes and classified
Classified == pc # "start" /\ precond = "ok"

\* nothing has been removed or deleted yet
Untouched == ops = <<>>

PathsOf(items) == {items[i].data.path : i \in 1..Len(items)}

WorktreeChoices == {choices[i].data : i \in {j \in 1..Len(choices) : choices[j].type = "worktree"}}

\* directory containment, component-wise: p is dir or lies under it
IsUnder(p, dir) == p = dir \/ startsWith(p, dir \o "/")

RemovalCalls == SelectSeq(ops, LAMBDA c : c.op \in {"removeWorktree", "rm"})

CountCalls(op, ok) == Len(SelectSeq(ops, LAMBDA c : c.op = op /\ c.ok = ok))

CountFolderCalls(type, ok) ==
    Len(SelectSeq(ops, LAMBDA c : c.op = "rm" /\ c.ok = ok
                                  /\ selectedItems[c.item].type = type))

----------------------------------------------------------------------------
(* C1 *)

----------------------------------------------------------------------------
(* C2 *)

\* C2: a merged/closed worktree whose status query failed is not selectable and
\* is never passed to a removal.
C2_StatusFailureIsNotSelectable ==
    \A p \in DOMAIN gathered :
        gathered[p].status = "fail" =>
            /\ \A w \in WorktreeChoices : w.path # p
            /\ \A k \in 1..Len(ops) : ops[k].op = "removeWorktree" => ops[k].arg # p

----------------------------------------------------------------------------
(* C3 *)

----------------------------------------------------------------------------
(* C4 *)

\* C4: every selected item is a choice; every removal, directory deletion and
\* branch deletion is on the path or branch of a selected item of the matching
\* kind; with nothing selected nothing is called.
C4_OnlySelectedItemsAreTouched ==
    /\ \A i \in 1..Len(selectedItems) : \E j \in 1..Len(choices) : choices[j] = selectedItems[i]
    /\ \A k \in 1..Len(ops) :
         \E i \in 1..Len(selectedItems) :
             LET item == selectedItems[i]
             IN  \/ ops[k].op = "removeWorktree" /\ item.type = "worktree"
                    /\ ops[k].arg = item.data.path
                 \/ ops[k].op = "deleteBranch" /\ item.type = "worktree"
                    /\ ops[k].arg = item.data.branch
                 \/ ops[k].op = "rm" /\ item.type \in {"abandoned", "orphan"}
                    /\ ops[k].arg = item.data.path
    /\ selectedItems = <<>> => ops = <<>>

\* the operator ticked some but not all choices and the loop ran
C4_Witness ==
    /\ pc = "done"
    /\ ~options.force
    /\ ops # <<>>
    /\ Len(selectedItems) < Len(choices)

----------------------------------------------------------------------------
(* C5 *)

\* C5: under --dry-run no step changes the registry, the disk or the branches,
\* and no external mutating call is made.
C5_DryRunChangesNothing ==
    [][options.dryRun =>
          /\ worktrees' = worktrees
          /\ fs' = fs
          /\ branches' = branches
          /\ ops' = ops
          /\ pc' \notin {"prompt", "loop"}]_vars

\* a --dry-run --force run that listed something to remove
C5_Witness ==
    /\ pc = "done"
    /\ options.dryRun
    /\ options.force
    /\ Len(choices) > 0

----------------------------------------------------------------------------
(* C6 *)

\* C6: the loop calls one removal per selected item, in selection order, whatever
\* fails; each item bumps exactly the counter of its kind and outcome; when the
\* loop is over the six counters add up to the number of selected items.
C6_EveryItemProcessedOnce ==
    LET done == IF pc = "loop" THEN idx - 1 ELSE Len(selectedItems)
    IN  /\ Len(RemovalCalls) = done
        /\ \A k \in 1..done :
             /\ RemovalCalls[k].item = k
             /\ RemovalCalls[k].arg = selectedItems[k].data.path
        /\ counters.removed = CountCalls("removeWorktree", TRUE)
        /\ counters.failed = CountCalls("removeWorktree", FALSE)
        /\ counters.abandonedRemoved = CountFolderCalls("abandoned", TRUE)
        /\ counters.abandonedFailed = CountFolderCalls("abandoned", FALSE)
        /\ counters.orphanRemoved = CountFolderCalls("orphan", TRUE)
        /\ counters.orphanFailed = CountFolderCalls("orphan", FALSE)
        /\ counters.removed + counters.failed + counters.abandonedRemoved
             + counters.abandonedFailed + counters.orphanRemoved + counters.orphanFailed
           = done

\* a finished loop whose first removal failed and a later one succeeded
C6_Witness ==
    /\ pc = "done"
    /\ Len(selectedItems) >= 2
    /\ ~RemovalCalls[1].ok
    /\ \E k \in 2..Len(RemovalCalls) : RemovalCalls[k].ok

----------------------------------------------------------------------------
(* C7 *)

\* C7: a branch deletion is forced, and directly follows the successful worktree
\* removal of the same item, whose branch it names; a failed worktree removal is
\* followed by no call of its item; the items counted removed are exactly those
\* whose worktree removal succeeded, whatever the branch deletion did.
C7_BranchDeletedOnlyAfterRemoval ==
    /\ \A k \in 1..Len(ops) :
         ops[k].op = "deleteBranch" =>
             /\ ops[k].force
             /\ k > 1
             /\ ops[k - 1].op = "removeWorktree"
             /\ ops[k - 1].ok
             /\ ops[k - 1].item = ops[k].item
             /\ selectedItems[ops[k].item].type = "worktree"
             /\ selectedItems[ops[k].item].data.path = ops[k - 1].arg
             /\ selectedItems[ops[k].item].data.branch = ops[k].arg
    /\ \A k \in 1..Len(ops) :
         ops[k].op = "removeWorktree" /\ ~ops[k].ok =>
             \A m \in 1..Len(ops) : m # k => ops[m].item # ops[k].item
    /\ counters.removed = CountCalls("removeWorktree", TRUE)
    /\ counters.failed = CountCalls("removeWorktree", FALSE)

\* a worktree was removed, the deletion of its branch failed, and the item is
\* counted removed
C7_Witness ==
    /\ pc = "done"
    /\ counters.removed = 1
    /\ counters.failed = 0
    /\ \E k \in 1..Len(ops) : ops[k].op = "deleteBranch" /\ ~ops[k].ok

----------------------------------------------------------------------------
(* C8 *)

\* the abandoned folders and orphan worktrees directly under the worktrees
\* directory, read off the disk
LeftoversOnDisk ==
    {p \in Range(DiskPaths) :
        dirname(p) = RootDir /\ (IsAbandoned(fs[p]) \/ IsOrphan(fs[p]))}

\* C8: once clean has classified and before it removes anything, every abandoned
\* folder and every orphan worktree of the worktrees directory is a choice.
C8_LeftoversAlwaysSelectable ==
    Classified /\ Untouched => LeftoversOnDisk \subseteq PathsOf(choices)

----------------------------------------------------------------------------
(* C9 *)

\* C9: no abandoned or orphan choice has the path of a registered worktree, and
\* no two choices have the same path.
C9_ScansDisjointFromInventory ==
    Classified /\ Untouched =>
        /\ \A i \in 1..Len(choices) :
             choices[i].type \in {"abandoned", "orphan"} =>
                 ~IsRegistered(worktrees, choices[i].data.path)
        /\ \A i, j \in 1..Len(choices) :
             i # j => choices[i].data.path # choices[j].data.path

----------------------------------------------------------------------------
(* C10 *)

\* C10: every worktree clean considers for removal (cleanable, hence skipped or
\* selectable) is the worktrees directory or lies under it.
C10_CandidatesAreUnderWorktreesDir ==
    \A i \in 1..Len(cleanable) : IsUnder(cleanable[i].path, RootDir)

----------------------------------------------------------------------------
(* A helper function under call: the command variables stand still *)

HelperIdle ==
    /\ worktrees = <<>>
    /\ fs = <<>>
    /\ branches = {}
    /\ currentPath = MainPath
    /\ precond = "ok"
    /\ cmd = "none"
    /\ options = [dryRun |-> FALSE, force |-> FALSE]
    /\ gathered = <<>>
    /\ cleanable = <<>>
    /\ skipped = <<>>
    /\ toRemove = <<>>
    /\ choices = <<>>
    /\ selectedItems = <<>>
    /\ idx = 1
    /\ counters = ZeroCounters
    /\ ops = <<>>
    /\ exitCode = -1
    /\ output = <<>>

Returned(h) == helper = h /\ pc = "done"

----------------------------------------------------------------------------
(* utils/git.ts: listWorktrees *)

\* the longest listing, in lines
MaxLines == 4

\* String.prototype.substring(n)
substring(s, n) == SubSeq(s, n + 1, Len(s))

\* String.prototype.trim
trim(s) ==
    LET ink == {i \in 1..Len(s) : ~IsSpace(CharAt(s, i))}
    IN  IF ink = {} THEN ""
        ELSE SubSeq(s, CHOOSE i \in ink : \A j \in ink : i <= j,
                       CHOOSE i \in ink : \A j \in ink : j <= i)

\* String.prototype.replace(pattern, replacement), pattern a string: the first
\* occurrence only
replace(s, pattern, replacement) ==
    LET at == {i \in 0..(Len(s) - Len(pattern)) :
                  SubSeq(s, i + 1, i + Len(pattern)) = pattern}
    IN  IF at = {} THEN s
        ELSE LET i == CHOOSE j \in at : \A k \in at : j <= k
             IN  SubSeq(s, 1, i) \o replacement \o SubSeq(s, i + Len(pattern) + 1, Len(s))

\* {}: no property set (an unset path, commit or branch is the empty string here,
\* which the code's truth tests do not tell from undefined)
NoWorktree == [path |-> "", commit |-> "", branch |-> NoBranch, isMain |-> FALSE]

\* mutant of shortBranch: the ref is kept whole
shortBranch_Unstripped(line) == substring(line, 7)

\* the value of a `branch ` line
shortBranch(line) == replace(substring(line, 7), "refs/heads/", "")

\* one iteration of the loop over the lines; st is [worktrees, current]
ParseLine(st, line) ==
    IF startsWith(line, "worktree ")
    THEN [worktrees |-> IF st.current.path # ""
                        THEN Append(st.worktrees, st.current)
                        ELSE st.worktrees,
          current |-> [NoWorktree EXCEPT !.path = substring(line, 9)]]
    ELSE IF startsWith(line, "HEAD ")
    THEN [st EXCEPT !.current.commit = substring(line, 5)]
    ELSE IF startsWith(line, "branch ")
    THEN [st EXCEPT !.current.branch = shortBranch(line)]
    ELSE IF line = "bare"
    THEN [st EXCEPT !.current.isMain = TRUE]
    ELSE IF line = "" /\ st.current.path # ""
    THEN [worktrees |-> Append(st.worktrees, st.current), current |-> NoWorktree]
    ELSE st

RECURSIVE ParseLines(_, _, _)
ParseLines(st, lines, i) ==
    IF i > Len(lines) THEN st ELSE ParseLines(ParseLine(st, lines[i]), lines, i + 1)

\* listWorktrees on the output of `git worktree list --porcelain`
listWorktrees(stdout) ==
    LET st == ParseLines([worktrees |-> <<>>, current |-> NoWorktree],
                         split(trim(stdout), "\n"), 1)
        all == IF st.current.path # "" THEN Append(st.worktrees, st.current)
               ELSE st.worktrees
    IN  [i \in 1..Len(all) |-> IF i = 1 THEN [all[i] EXCEPT !.isMain = TRUE] ELSE all[i]]

\* the lines a listing is made of
ListingLines ==
    {"worktree /h/r", "worktree /h/r-worktrees/a", "HEAD c1", "HEAD c2",
     "branch refs/heads/main", "branch refs/heads/a", "bare", "detached", ""}

RECURSIVE Listings(_)
Listings(n) ==
    IF n = 0 THEN {<<>>}
    ELSE LET shorter == Listings(n - 1)
         IN  shorter \cup {Append(l, x) : l \in {y \in shorter : Len(y) = n - 1},
                                           x \in ListingLines}

ParseInit ==
    /\ HelperIdle
    /\ helper = "listWorktrees"
    /\ pc = "start"
    /\ \E lines \in Listings(MaxLines) : args = Unlines(lines)
    /\ ret = <<>>

CallListWorktrees ==
    /\ helper = "listWorktrees"
    /\ pc = "start"
    /\ ret' = listWorktrees(args)
    /\ pc' = "done"
    /\ UNCHANGED <<commandVars, helper, args>>

ParseNext == CallListWorktrees

SpecParse == ParseInit /\ [][ParseNext]_vars

----------------------------------------------------------------------------
(* C11 *)

\* C11: in what listWorktrees returns, record i has isMain = true iff i = 1.
C11_OnlyFirstRecordIsMain ==
    Returned("listWorktrees") =>
        \A i \in 1..Len(ret) : ret[i].isMain <=> i = 1

----------------------------------------------------------------------------
(* C12 *)

\* the lines listWorktrees loops over
LinesOf(stdout) == split(trim(stdout), "\n")

\* the positions of the `worktree <path>` lines, in listing order
WorktreeLineAt(lines) ==
    LET RECURSIVE From(_)
        From(i) == IF i > Len(lines) THEN <<>>
                   ELSE IF startsWith(lines[i], "worktree ") THEN <<i>> \o From(i + 1)
                   ELSE From(i + 1)
    IN  From(1)

\* the lines of the block opened at line i: up to the next blank or `worktree` line
BlockOf(lines, i) ==
    LET stops == {j \in (i + 1)..Len(lines) :
                     lines[j] = "" \/ startsWith(lines[j], "worktree ")}
        end == IF stops = {} THEN Len(lines) + 1
               ELSE CHOOSE j \in stops : \A k \in stops : j <= k
    IN  (i + 1)..(end - 1)

\* what the last line of the block with this label says after the label, "" if none
LabelIn(lines, i, label) ==
    LET at == {j \in BlockOf(lines, i) : startsWith(lines[j], label)}
    IN  IF at = {} THEN ""
        ELSE substring(lines[CHOOSE j \in at : \A k \in at : k <= j], Len(label))

\* C12: listWorktrees returns one record per `worktree <path>` line, in listing
\* order, with the path of that line and the HEAD and branch of its own block, the
\* branch without the `refs/heads/` prefix; nothing else yields a record.
C12_OneRecordPerWorktreeLine ==
    Returned("listWorktrees") =>
        LET lines == LinesOf(args)
            at == WorktreeLineAt(lines)
        IN  /\ Len(ret) = Len(at)
            /\ \A k \in 1..Len(at) :
                 /\ ret[k].path = substring(lines[at[k]], Len("worktree "))
                 /\ ret[k].commit = LabelIn(lines, at[k], "HEAD ")
                 /\ "refs/heads/" \o ret[k].branch = LabelIn(lines, at[k], "branch ")
                    \/ (ret[k].branch = NoBranch /\ LabelIn(lines, at[k], "branch ") = "")

\* two records returned, the second with its own HEAD and branch, after a block
\* without a `worktree` line
C12_Witness ==
    /\ Returned("listWorktrees")
    /\ Len(ret) = 2
    /\ ret[2].branch = "a"
    /\ \E i \in 1..Len(LinesOf(args)) : LinesOf(args)[i] = ""

----------------------------------------------------------------------------
(* utils/git.ts: getMainWorktreePath, against git's two listing formats *)

\* at most this many secondary worktrees in a listed repository
MaxListed == 2

\* where the primary worktree of a repository may be
PrimaryPaths == {"/h/r", "/h/my r", "/r"}

SecondaryNames == <<"a", "b", "c">>

\* what a worktree has checked out
Heads == {"branch", "detached"}

\* the repositories listed: the primary worktree (a bare repository has none
\* checked out), the secondary worktrees in the order git lists them, and the
\* worktree the caller stands in (0 the primary one)
Repos ==
    {[primary |-> p, head |-> h, secondary |-> sec, cwd |-> c] :
        p \in PrimaryPaths, h \in Heads \cup {"bare"},
        sec \in UNION {[1..n -> Heads] : n \in 0..MaxListed},
        c \in 0..MaxListed}

\* the worktrees of a repository as git lists them, the primary one first
ListedWorktrees(repo) ==
    <<[path |-> repo.primary, head |-> repo.head, branch |-> MainBranch, commit |-> "c0"]>>
    \o [i \in 1..Len(repo.secondary) |->
          [path |-> join(repo.primary \o WorktreesSuffix, SecondaryNames[i]),
           head |-> repo.secondary[i],
           branch |-> SecondaryNames[i],
           commit |-> "c" \o SecondaryNames[i]]]

PlainListing(repo) ==
    LET wts == ListedWorktrees(repo)
    IN  Unlines([i \in 1..Len(wts) |-> PlainLine(wts[i], Longest(wts))])

\* `git worktree list --porcelain`: one block per worktree, a blank line after each
PorcelainBlock(wt) ==
    "worktree " \o wt.path \o "\n" \o
    (IF wt.head = "bare" THEN "bare\n"
     ELSE "HEAD " \o wt.commit \o "\n" \o
          (IF wt.head = "detached" THEN "detached\n"
           ELSE "branch refs/heads/" \o wt.branch \o "\n")) \o
    "\n"

RECURSIVE Concat(_)
Concat(strs) == IF strs = <<>> THEN "" ELSE strs[1] \o Concat(Tail(strs))

PorcelainListing(repo) ==
    LET wts == ListedWorktrees(repo)
    IN  Concat([i \in 1..Len(wts) |-> PorcelainBlock(wts[i])])

InventoryInit ==
    /\ HelperIdle
    /\ helper = "getMainWorktreePath"
    /\ pc = "start"
    /\ args \in {r \in Repos : r.cwd <= Len(r.secondary)}
    /\ ret = ""

CallGetMainWorktreePath ==
    /\ helper = "getMainWorktreePath"
    /\ pc = "start"
    /\ ret' = getMainWorktreePath(PlainListing(args))
    /\ pc' = "done"
    /\ UNCHANGED <<commandVars, helper, args>>

InventoryNext == CallGetMainWorktreePath

SpecInventory == InventoryInit /\ [][InventoryNext]_vars

----------------------------------------------------------------------------
(* C13 *)

\* C13: for every repository and every worktree the caller stands in,
\* getMainWorktreePath returns the path of the first record listWorktrees returns.
C13_MainPathIsFirstRecord ==
    Returned("getMainWorktreePath") =>
        ret = listWorktrees(PorcelainListing(args))[1].path

----------------------------------------------------------------------------
(* utils/github.ts: getPRStatus on its own *)

PrInit ==
    /\ HelperIdle
    /\ helper = "getPRStatus"
    /\ pc = "start"
    /\ args \in PrResponses
    /\ ret = PrNull

CallGetPRStatus ==
    /\ helper = "getPRStatus"
    /\ pc = "start"
    /\ ret' = getPRStatus(args)
    /\ pc' = "done"
    /\ UNCHANGED <<commandVars, helper, args>>

PrNext == CallGetPRStatus

SpecPr == PrInit /\ [][PrNext]_vars

\* getPRStatus returned the status of a request it found
ReturnedStatus == Returned("getPRStatus") /\ args.res = "found"

----------------------------------------------------------------------------
(* C18 *)

\* C18: the state getPRStatus reports is merged whenever the request has a merge
\* timestamp, closed when it has none and its lifecycle state is closed, open
\* otherwise.
C18_StateFromMergeTimestampFirst ==
    ReturnedStatus =>
        /\ ~ret.isNull
        /\ args.merged_at => ret.state = "merged"
        /\ ~args.merged_at /\ args.state = "closed" => ret.state = "closed"
        /\ ~args.merged_at /\ args.state # "closed" => ret.state = "open"

\* a request with a merge timestamp whose lifecycle state is closed
C18_Witness ==
    /\ ReturnedStatus
    /\ args.merged_at
    /\ args.state = "closed"
    /\ ret.state = "merged"

----------------------------------------------------------------------------
(* C19 *)

AnyRun(pr, c) == \E i \in 1..Len(pr.conclusions) : pr.conclusions[i] = c
AllRuns(pr, c) == \A i \in 1..Len(pr.conclusions) : pr.conclusions[i] = c

\* C19: checksStatus is none when the check-run lookup failed or there is no run,
\* else failure if a run concluded failure, else success if every run concluded
\* success, else pending; the state reported is the same whether or not the
\* check-run lookup failed.
C19_ChecksAggregation ==
    ReturnedStatus =>
        /\ ret.checksStatus =
             (IF args.checksFail \/ Len(args.conclusions) = 0 THEN "none"
              ELSE IF AnyRun(args, "failure") THEN "failure"
              ELSE IF AllRuns(args, "success") THEN "success"
              ELSE "pending")
        /\ ret.state = (IF args.merged_at THEN "merged"
                        ELSE IF args.state = "closed" THEN "closed"
                        ELSE "open")
        /\ ~ret.isNull

\* a failed run beside a successful one
C19_Witness ==
    /\ ReturnedStatus
    /\ ~args.checksFail
    /\ AnyRun(args, "failure")
    /\ AnyRun(args, "success")
    /\ ret.checksStatus = "failure"

----------------------------------------------------------------------------
(* commands/clean.ts: the scans on their own *)

\* at most this many entries in the worktrees directory
MaxEntries == 2

EntryNames == <<"d1", "d2", "d3">>

\* what one entry may be
EntryStates ==
    {e \in [stat : {"dir", "file", "throws"},
            git : {"none", "file", "dir", "throws"},
            content : {"abs", "rel", "nomatch", "throws"},
            fromCwd : BOOLEAN,
            fromDir : BOOLEAN] :
        /\ e.stat # "dir" => e.git = "none"
        /\ e.git # "file" => e.content = "nomatch"
        /\ e.content \notin {"abs", "rel"} => ~e.fromCwd /\ ~e.fromDir
        /\ e.content = "abs" => e.fromCwd = e.fromDir}

\* the worktrees directory with these entries
Directory(states) ==
    [i \in 1..Len(states) |->
        [path |-> join(RootDir, EntryNames[i]),
         stat |-> states[i].stat,
         git |-> states[i].git,
         content |-> states[i].content,
         gitdir |-> IF states[i].content = "rel" THEN "../../r/.git/worktrees/d"
                    ELSE "/h/r/.git/worktrees/d",
         fromCwd |-> states[i].fromCwd,
         fromDir |-> states[i].fromDir]]

ScanInit ==
    /\ HelperIdle
    /\ helper = "scans"
    /\ pc = "start"
    /\ \E n \in 0..MaxEntries : \E states \in [1..n -> EntryStates] :
         args = Directory(states)
    /\ ret = [abandoned |-> <<>>, orphans |-> <<>>, ranAbandoned |-> FALSE,
              ranOrphans |-> FALSE]

CallFindAbandonedFolders ==
    /\ helper = "scans"
    /\ ~ret.ranAbandoned
    /\ ret' = [ret EXCEPT !.abandoned = ScanAbandoned(args, 1, <<>>),
                          !.ranAbandoned = TRUE]
    /\ pc' = IF ret.ranOrphans THEN "done" ELSE pc
    /\ UNCHANGED <<commandVars, helper, args>>

CallFindOrphanWorktrees ==
    /\ helper = "scans"
    /\ ~ret.ranOrphans
    /\ ret' = [ret EXCEPT !.orphans = ScanOrphans(args, 1, <<>>),
                          !.ranOrphans = TRUE]
    /\ pc' = IF ret.ranAbandoned THEN "done" ELSE pc
    /\ UNCHANGED <<commandVars, helper, args>>

ScanNext ==
    \/ CallFindAbandonedFolders
    \/ CallFindOrphanWorktrees

SpecScan == ScanInit /\ [][ScanNext]_vars

InAbandoned(p) == \E i \in 1..Len(ret.abandoned) : ret.abandoned[i].data.path = p
InOrphans(p) == \E i \in 1..Len(ret.orphans) : ret.orphans[i].data.path = p

----------------------------------------------------------------------------
(* C15 *)

\* C15: findOrphanWorktrees returns a directory D of the root iff D/.git is a file
\* with a gitdir line whose target, a relative one resolved from D, does not exist.
C15_OrphanIffTargetMissing ==
    helper = "scans" /\ ret.ranOrphans =>
        \A i \in 1..Len(args) :
            InOrphans(args[i].path) <=>
                /\ args[i].stat = "dir"
                /\ args[i].git = "file"
                /\ args[i].content \in {"abs", "rel"}
                /\ ~args[i].fromDir

----------------------------------------------------------------------------
(* C16 *)

\* C16: an entry that cannot be read or stat'ed is left out alone: every other
\* entry that is a directory without .git is returned by findAbandonedFolders and
\* every other entry whose .git file names a target the scan finds missing is
\* returned by findOrphanWorktrees.
C16_FailureExcludesOnlyThatEntry ==
    helper = "scans" =>
        \A i \in 1..Len(args) :
            /\ ret.ranAbandoned /\ AbandonedEntry(args[i]) => InAbandoned(args[i].path)
            /\ ret.ranOrphans /\ OrphanEntry(args[i]) => InOrphans(args[i].path)

----------------------------------------------------------------------------
(* C17 *)

\* C17: on one state of the worktrees directory, no directory is returned by both
\* findAbandonedFolders and findOrphanWorktrees.
C17_NeverBothAbandonedAndOrphan ==
    Returned("scans") =>
        \A i \in 1..Len(args) : ~(InAbandoned(args[i].path) /\ InOrphans(args[i].path))

\* both scans ran and each returned something
C17_Witness ==
    /\ Returned("scans")
    /\ Len(ret.abandoned) > 0
    /\ Len(ret.orphans) > 0

----------------------------------------------------------------------------
(* commands/list.ts *)

\* the answers list tells apart: it reads state, draft mark and checksStatus
ListLookups ==
    {lk \in PrResponses :
        /\ lk.checksFail /\ lk.conclusions = <<>>
        /\ lk.merged_at => lk.state = "closed"}

\* no lookup made
Unasked ==
    [res |-> "unasked", merged_at |-> FALSE, state |-> "open", draft |-> FALSE,
     checksFail |-> TRUE, conclusions |-> <<>>]

\* birthtimeMs of a worktree directory
CreationTimes == {1, 2}

\* what `git status --porcelain` may do in any directory
Statuses == {"clean", "dirty", "fail"}

\* what getAheadBehind may answer for a branch against the default branch
AheadBehinds == {[ahead |-> 0, behind |-> 0], [ahead |-> 1, behind |-> 2]}

\* `let ahead = 0; let behind = 0`: a worktree without a branch is not compared
NotCompared == [ahead |-> 0, behind |-> 0]

\* the state list prints for a worktree
ListedState(asked, lk) ==
    IF ~asked THEN "no-pr"
    ELSE LET pr == getPRStatus(lk)
         IN  IF pr.isNull THEN "no-pr"
             ELSE IF pr.isDraft THEN "draft"
             ELSE pr.state

\* the WorktreeInfo of one worktree
WorktreeInfoOf(wt, cur, asked, o) ==
    [path |-> wt.path,
     dirname |-> basename(wt.path),
     branch |-> IF wt.branch # NoBranch THEN wt.branch ELSE "no-branch",
     creationTime |-> o.creationTime,
     isCurrentWorktree |-> isPathInWorktree(cur, wt.path),
     hasUncommittedChanges |-> hasUncommittedChanges(o.status),
     ahead |-> IF wt.branch # NoBranch THEN o.aheadBehind.ahead ELSE 0,
     behind |-> IF wt.branch # NoBranch THEN o.aheadBehind.behind ELSE 0,
     prState |-> ListedState(asked /\ wt.branch # NoBranch, o.lookup)]

\* Array.prototype.sort((a, b) => a.creationTime - b.creationTime): stable
RECURSIVE sortByCreationTime(_)
sortByCreationTime(infos) ==
    IF infos = <<>> THEN <<>>
    ELSE LET first == CHOOSE i \in 1..Len(infos) :
                         /\ \A j \in 1..Len(infos) :
                              infos[i].creationTime <= infos[j].creationTime
                         /\ \A j \in 1..(i - 1) :
                              infos[j].creationTime # infos[i].creationTime
         IN  <<infos[first]>> \o
             sortByCreationTime(SubSeq(infos, 1, first - 1) \o
                                SubSeq(infos, first + 1, Len(infos)))

ListInit ==
    /\ \E at \in SUBSET Range(SecondaryPaths) :
         /\ Cardinality(at) <= MaxWorktrees
         /\ \E detached \in SUBSET at :
              /\ worktrees = Registry(at, detached)
              /\ branches = {MainBranch} \cup {BranchAt(p) : p \in at \ detached}
         /\ fs \in DiskStates(at)
         /\ currentPath \in {MainPath} \cup {p \in at : fs[p] = "healthy"}
    /\ precond \in Preconds
    /\ cmd = "list"
    /\ options \in [json : BOOLEAN]
    /\ pc = "start"
    /\ gathered = <<>>
    /\ cleanable = <<>>
    /\ skipped = <<>>
    /\ toRemove = <<>>
    /\ choices = <<>>
    /\ selectedItems = <<>>
    /\ idx = 1
    /\ counters = ZeroCounters
    /\ ops = <<>>
    /\ exitCode = -1
    /\ output = <<>>
    /\ helper = "none"
    /\ args = <<>>
    /\ ret = <<>>

\* the whole handler: inventory, filter, probes, the gathering of every worktree,
\* the sort and the printing
ListCommand ==
    /\ pc = "start"
    /\ cmd = "list"
    /\ UNCHANGED <<worktrees, fs, branches, currentPath, precond, cmd, options,
                   cleanable, skipped, toRemove, choices, selectedItems, idx, counters,
                   ops, helperVars>>
    /\ IF precond = "git-failed"
       THEN /\ Exit(1)
            /\ UNCHANGED <<gathered, output>>
       ELSE IF precond = "git-empty" \/ Len(filteredWorktrees(worktrees)) = 0
       THEN /\ Exit(0)
            /\ UNCHANGED <<gathered, output>>
       ELSE \E wts \in {filteredWorktrees(worktrees)} :
            \E at \in {{wts[i].path : i \in 1..Len(wts)}} :
            \E lookups \in [at -> IF precond = "ok" THEN ListLookups ELSE {Unasked}],
               statuses \in [at -> Statuses],
               times \in [at -> CreationTimes],
               counts \in [at -> AheadBehinds] :
            \E g \in {[p \in at |->
                         [lookup |-> IF \E i \in 1..Len(wts) :
                                           wts[i].path = p /\ wts[i].branch # NoBranch
                                     THEN lookups[p] ELSE Unasked,
                          status |-> statuses[p],
                          aheadBehind |-> IF \E i \in 1..Len(wts) :
                                                wts[i].path = p /\ wts[i].branch # NoBranch
                                          THEN counts[p] ELSE NotCompared,
                          creationTime |-> times[p]]]} :
              /\ \A p \in at : statuses[p] \in StatusOutcomes(fs[p])
              /\ gathered' = g
              /\ output' = sortByCreationTime(
                     [i \in 1..Len(wts) |->
                         WorktreeInfoOf(wts[i], currentPath, precond = "ok",
                                        g[wts[i].path])])
              /\ Exit(0)

ListNext == ListCommand

SpecList == ListInit /\ [][ListNext]_vars

----------------------------------------------------------------------------
(* C14 *)

\* C14: when the worktree listing exits non-zero or yields no record, the command
\* ends with an error, having gathered and printed nothing and called nothing.
C14_NoInventoryIsAnError ==
    pc = "done" /\ precond \in {"git-failed", "git-empty"} =>
        /\ exitCode = 1
        /\ gathered = <<>>
        /\ output = <<>>
        /\ ops = <<>>

----------------------------------------------------------------------------
(* C20 *)

\* the worktrees whose remote lookup failed
LookupFailed ==
    {p \in DOMAIN gathered : gathered[p].lookup.res \in {"token-fail", "fail"}}

----------------------------------------------------------------------------
(* utils/git.ts: isPathInWorktree on its own *)

\* the paths isPathInWorktree is called on
TestedPaths ==
    {"/home/user/project", "/home/user/project/src", "/home/user/project/src/a.ts",
     "/home/user/project2", "/home/user/project2/src", "/home/user/other",
     "/home/user", "/home", "/", "", MainPath, RootDir, PathA, PathN}

PathInit ==
    /\ HelperIdle
    /\ helper = "isPathInWorktree"
    /\ pc = "start"
    /\ args \in [currentPath : TestedPaths, worktreePath : TestedPaths]
    /\ ret = FALSE

CallIsPathInWorktree ==
    /\ helper = "isPathInWorktree"
    /\ pc = "start"
    /\ ret' = isPathInWorktree(args.currentPath, args.worktreePath)
    /\ pc' = "done"
    /\ UNCHANGED <<commandVars, helper, args>>

PathNext == CallIsPathInWorktree

SpecPath == PathInit /\ [][PathNext]_vars

----------------------------------------------------------------------------
(* C28 *)

\* w is c cut after some character
CharacterPrefix(w, c) ==
    /\ Len(w) <= Len(c)
    /\ \A i \in 1..Len(w) : CharAt(w, i) = CharAt(c, i)

\* C28: isPathInWorktree(currentPath, worktreePath) is true iff worktreePath is a
\* character prefix of currentPath.
C28_TrueIffCharacterPrefix ==
    Returned("isPathInWorktree") =>
        (ret <=> CharacterPrefix(args.worktreePath, args.currentPath))

\* the match ends in the middle of a path component
C28_Witness ==
    /\ Returned("isPathInWorktree")
    /\ args.currentPath = "/home/user/project2/src"
    /\ args.worktreePath = "/home/user/project"
    /\ ret

----------------------------------------------------------------------------
(* utils/git.ts: hasUnpushedCommits and getAheadBehind, over `git rev-list --count` *)

\* at most this many commits in the repository
MaxCommits == 3

Commits == 1..MaxCommits

Digits == <<"0", "1", "2", "3", "4", "5", "6", "7", "8", "9">>

\* a count as git prints it
RECURSIVE Decimal(_)
Decimal(n) == IF n < 10 THEN Digits[n + 1] ELSE Decimal(n \div 10) \o Digits[(n % 10) + 1]

DigitValue(c) == (CHOOSE i \in 1..10 : Digits[i] = c) - 1

IsDigit(c) == \E i \in 1..10 : Digits[i] = c

\* parseInt(s, 10) of text without sign or leading blanks: the leading digits; NaN
\* (here -1, which no test of the code tells from NaN: it is neither > 0 nor kept
\* by `|| 0`) when there is none
parseInt(s) ==
    LET RECURSIVE Lead(_, _)
        Lead(i, acc) ==
            IF i > Len(s) \/ ~IsDigit(CharAt(s, i)) THEN acc
            ELSE Lead(i + 1, acc * 10 + DigitValue(CharAt(s, i)))
    IN  IF Len(s) = 0 \/ ~IsDigit(CharAt(s, 1)) THEN -1 ELSE Lead(1, 0)

\* stdout of `git rev-list --count from..to`: the commits of `to` not in `from`
RevListCount(from, to) == Decimal(Cardinality(to \ from)) \o "\n"

\* The repository the helpers query: the commits reachable from a branch and from
\* the ref it is compared with (its upstream, or the base branch), whether the
\* branch has an upstream, and which of the git calls exit non-zero
RevListRepos ==
    [branch : SUBSET Commits, other : SUBSET Commits, hasUpstream : BOOLEAN,
     revParseFails : BOOLEAN, aheadFails : BOOLEAN, behindFails : BOOLEAN]

\* hasUnpushedCommits: rev-parse of branch@{upstream} exits non-zero without an
\* upstream; the count is of upstream..branch; every failure lands in the catch
hasUnpushedCommits(r) ==
    IF ~r.hasUpstream \/ r.revParseFails \/ r.aheadFails
    THEN [hasUnpushed |-> FALSE, noRemote |-> TRUE]
    ELSE [hasUnpushed |-> parseInt(trim(RevListCount(r.other, r.branch))) > 0,
          noRemote |-> FALSE]

\* parseInt(stdout, 10) || 0
CountOrZero(stdout) == IF parseInt(stdout) <= 0 THEN 0 ELSE parseInt(stdout)

\* mutant of getAheadBehind: both counts from the same range
getAheadBehind_SameRange(branch, base, aheadFails, behindFails) ==
    IF aheadFails \/ behindFails THEN [ahead |-> 0, behind |-> 0]
    ELSE [ahead |-> CountOrZero(RevListCount(base, branch)),
          behind |-> CountOrZero(RevListCount(base, branch))]

\* getAheadBehind(branch, baseBranch), the two queries failing or not
getAheadBehind(branch, base, aheadFails, behindFails) ==
    IF aheadFails \/ behindFails THEN [ahead |-> 0, behind |-> 0]
    ELSE [ahead |-> CountOrZero(RevListCount(base, branch)),
          behind |-> CountOrZero(RevListCount(branch, base))]

RevListInit ==
    /\ HelperIdle
    /\ helper \in {"hasUnpushedCommits", "getAheadBehind"}
    /\ pc = "start"
    /\ args \in RevListRepos
    /\ helper = "getAheadBehind" => args.hasUpstream /\ ~args.revParseFails
    /\ ret = <<>>

CallHasUnpushedCommits ==
    /\ helper = "hasUnpushedCommits"
    /\ pc = "start"
    /\ ret' = hasUnpushedCommits(args)
    /\ pc' = "done"
    /\ UNCHANGED <<commandVars, helper, args>>

\* getAheadBehind(A, B) and getAheadBehind(B, A) on one repository: the query of
\* A's commits not in B is the first call's ahead query and the second's behind query
CallGetAheadBehind ==
    /\ helper = "getAheadBehind"
    /\ pc = "start"
    /\ ret' = [ab |-> getAheadBehind(args.branch, args.other,
                                     args.aheadFails, args.behindFails),
               ba |-> getAheadBehind(args.other, args.branch,
                                     args.behindFails, args.aheadFails)]
    /\ pc' = "done"
    /\ UNCHANGED <<commandVars, helper, args>>

RevListNext ==
    \/ CallHasUnpushedCommits
    \/ CallGetAheadBehind

SpecRevList == RevListInit /\ [][RevListNext]_vars

----------------------------------------------------------------------------
(* C22 *)

\* C22: hasUnpushedCommits returns noRemote = true iff the branch has no upstream;
\* with an upstream, hasUnpushed tells whether the branch has a commit the upstream
\* has not; the two are never both true.
C22_NoRemoteIffNoUpstream ==
    Returned("hasUnpushedCommits") =>
        /\ ret.noRemote <=> ~args.hasUpstream
        /\ args.hasUpstream =>
             (ret.hasUnpushed <=> Cardinality(args.branch \ args.other) > 0)
        /\ ~(ret.hasUnpushed /\ ret.noRemote)

----------------------------------------------------------------------------
(* C23 *)

\* C23: when the two count queries succeed, ahead and behind of (A, B) are behind
\* and ahead of (B, A); when A has n commits more than B and B none more than A,
\* (A, B) is {n, 0} and (B, A) is {0, n}.
C23_AheadBehindAntisymmetric ==
    Returned("getAheadBehind") /\ ~args.aheadFails /\ ~args.behindFails =>
        /\ ret.ab.ahead = ret.ba.behind
        /\ ret.ab.behind = ret.ba.ahead
        /\ args.other \subseteq args.branch =>
             /\ ret.ab = [ahead |-> Cardinality(args.branch \ args.other), behind |-> 0]
             /\ ret.ba = [ahead |-> 0, behind |-> Cardinality(args.branch \ args.other)]

\* A is ahead of B, with no commit of B missing in A
C23_Witness ==
    /\ Returned("getAheadBehind")
    /\ ~args.aheadFails /\ ~args.behindFails
    /\ args.other \subseteq args.branch
    /\ ret.ab.ahead >= 2
    /\ ret.ba.behind >= 2

----------------------------------------------------------------------------
(* C21 *)

\* the remote status cannot be had: gh missing or not logged in, origin not on
\* GitHub
RemoteUnavailable == precond \in {"gh-missing", "gh-unauthenticated", "not-github"}

\* C21: when the remote status cannot be had, the command makes no remote lookup
\* and runs to completion: it ends without an error, every worktree having remote
\* state none.
C21_RemoteUnavailableIsNotFatal ==
    pc = "done" /\ RemoteUnavailable =>
        /\ \A p \in DOMAIN gathered : gathered[p].lookup.res = "unasked"
        /\ \A i \in 1..Len(output) : output[i].prState = "no-pr"
        /\ exitCode = 0

----------------------------------------------------------------------------
(* C29 *)

\* C29: on the same answer of GitHub, a request list labels draft is not one
\* clean takes for merged or closed.
C29_DraftIsNeverStale ==
    ReturnedStatus =>
        (ListedState(TRUE, args) = "draft" => ~IsStale(ret))

----------------------------------------------------------------------------
(* C24 *)

\* the call at position i of the log is a failed `git worktree remove`
FailedRemoval(i) == ops[i].op = "removeWorktree" /\ ~ops[i].ok

\* C24: every failed `git worktree remove` of an item is followed, for the same
\* item, by a forced recursive delete of its directory and then by a prune of the
\* registry.
C24_FailedRemovalFallsBack ==
    \A i \in 1..Len(ops) :
        FailedRemoval(i) =>
            /\ i + 2 <= Len(ops)
            /\ ops[i + 1].op = "forceRemoveDirectory"
            /\ ops[i + 1].arg = ops[i].arg
            /\ ops[i + 1].item = ops[i].item
            /\ ops[i + 2].op = "pruneWorktrees"
            /\ ops[i + 2].item = ops[i].item

----------------------------------------------------------------------------
(* commands/list.ts: the concurrent gathering, one callback per worktree *)

\* at most this many worktrees in the worktrees directory
MaxRows == 2

\* the paths `git worktree list` may name under the worktrees directory, in the
\* order it names them
RowPaths == <<PathA, PathN, PathD>>

\* filteredWorktrees: some of them, in that order, each on a branch or detached
RowLists ==
    {SelectSeq([i \in 1..Len(RowPaths) |->
                   [path |-> RowPaths[i],
                    branch |-> IF RowPaths[i] \in detached
                               THEN NoBranch ELSE BranchAt(RowPaths[i])]],
               LAMBDA wt : wt.path \in at) :
        at \in {a \in SUBSET Range(RowPaths) : Cardinality(a) \in 1..MaxRows},
        detached \in SUBSET {PathN}}

\* what one callback's awaits may get for its worktree
RowLookups ==
    {lk \in ListLookups :
        lk.res \in {"none", "found"} /\ ~lk.draft /\ ~lk.merged_at /\ lk.state = "open"}

RowOutcomes(wt) ==
    {[lookup |-> lk, status |-> st, aheadBehind |-> ab, creationTime |-> t] :
        lk \in IF wt.branch # NoBranch THEN RowLookups ELSE {Unasked},
        st \in {"clean", "dirty"},
        ab \in IF wt.branch # NoBranch THEN AheadBehinds ELSE {NotCompared},
        t \in CreationTimes}

\* mutant of PromiseAll: the results in the order the callbacks finished
PromiseAll_CompletionOrder(results, order, n) ==
    [k \in 1..n |-> results[order[k]]]

\* Promise.all resolves with the results in the order of its input array
PromiseAll(results, order, n) ==
    [i \in 1..n |-> results[i]]

GatherInit ==
    /\ worktrees \in RowLists
    /\ fs = [p \in Range(DiskPaths) |-> "absent"]
    /\ branches = {}
    /\ currentPath = MainPath
    /\ precond = "ok"
    /\ cmd = "list"
    /\ options = [json |-> FALSE]
    /\ pc = "gather"
    /\ gathered = <<>>
    /\ cleanable = <<>>
    /\ skipped = <<>>
    /\ toRemove = <<>>
    /\ choices = <<>>
    /\ selectedItems = <<>>
    /\ idx = 1
    /\ counters = ZeroCounters
    /\ ops = <<>>
    /\ exitCode = -1
    /\ output = <<>>
    /\ helper = "gather"
    /\ args = <<>>
    /\ ret = <<>>

\* the callback of one worktree returns its WorktreeInfo; callbacks finish in any
\* order
CallbackResolves ==
    /\ pc = "gather"
    /\ \E i \in (1..Len(worktrees)) \ DOMAIN ret :
         \E o \in RowOutcomes(worktrees[i]) :
           /\ ret' = ret @@ (i :> WorktreeInfoOf(worktrees[i], currentPath, TRUE, o))
           /\ gathered' = gathered @@ (worktrees[i].path :> o)
           /\ args' = Append(args, i)
    /\ UNCHANGED <<worktrees, fs, branches, currentPath, precond, cmd, options, pc,
                   cleanable, skipped, toRemove, choices, selectedItems, idx, counters,
                   ops, exitCode, output, helper>>

\* every callback has returned: Promise.all resolves, the array is sorted and
\* printed
ListSortAndPrint ==
    /\ pc = "gather"
    /\ DOMAIN ret = 1..Len(worktrees)
    /\ output' = sortByCreationTime(PromiseAll(ret, args, Len(worktrees)))
    /\ Exit(0)
    /\ UNCHANGED <<worktrees, fs, branches, currentPath, precond, cmd, options,
                   gathered, cleanable, skipped, toRemove, choices, selectedItems, idx,
                   counters, ops, helperVars>>

GatherNext ==
    \/ CallbackResolves
    \/ ListSortAndPrint

SpecGather == GatherInit /\ [][GatherNext]_vars

----------------------------------------------------------------------------
(* C25 *)

\* the position of a path in the inventory
InventoryIndex(p) == CHOOSE i \in 1..Len(worktrees) : worktrees[i].path = p

Printed == helper = "gather" /\ pc = "done"

\* C25: whatever order the gathering callbacks finished in, list prints every
\* worktree once, in non-decreasing creation time, worktrees of equal creation
\* time in inventory order, and each row with the changes flag, the ahead and
\* behind counts and the remote state gathered for its own worktree.
C25_SortedStableAndOwnData ==
    Printed =>
        /\ Len(output) = Len(worktrees)
        /\ \A i \in 1..Len(worktrees) :
             \E k \in 1..Len(output) : output[k].path = worktrees[i].path
        /\ \A k \in 1..Len(output) : \A l \in (k + 1)..Len(output) :
             /\ output[k].creationTime <= output[l].creationTime
             /\ output[k].creationTime = output[l].creationTime =>
                  InventoryIndex(output[k].path) < InventoryIndex(output[l].path)
        /\ \A k \in 1..Len(output) :
             LET o == gathered[output[k].path]
             IN  /\ output[k].creationTime = o.creationTime
                 /\ output[k].hasUncommittedChanges = (o.status = "dirty")
                 /\ output[k].ahead = o.aheadBehind.ahead
                 /\ output[k].behind = o.aheadBehind.behind
                 /\ output[k].prState = IF o.lookup.res = "found" THEN "open" ELSE "no-pr"

\* two worktrees of equal creation time whose callbacks finished in the reverse
\* of the inventory order, with different data
C25_Witness ==
    /\ Printed
    /\ Len(output) >= 2
    /\ args[1] > args[2]
    /\ output[1].creationTime = output[2].creationTime
    /\ output[1].hasUncommittedChanges # output[2].hasUncommittedChanges
    /\ output[1].ahead # output[2].ahead
    /\ output[1].prState # output[2].prState

----------------------------------------------------------------------------
(* commands/remove.ts *)

\* where the primary worktree may be: the second is a repository called
\* h-worktrees in a directory whose name has a space
RemovePrimaries == {MainPath, "/h y/h-worktrees"}

\* the directory names of the secondary worktrees, and what they have checked out
RemoveDirs == <<"a", "f">>
RemoveBranches == {"a", "f", NoBranch}

\* the <name> the operator may give
RemoveNames == {"a", "f", MainBranch, "h-worktrees", "zz"}

\* the inventories: the primary worktree, then at most MaxWorktrees secondary
\* ones, no branch checked out twice
RemoveInventories ==
    {<<[path |-> p, branch |-> MainBranch]>> \o
     Pick([i \in 1..Len(RemoveDirs) |->
              [path |-> join(p \o WorktreesSuffix, RemoveDirs[i]), branch |-> b[i]]],
          at) :
        p \in RemovePrimaries,
        at \in {a \in SUBSET (1..Len(RemoveDirs)) : Cardinality(a) <= MaxWorktrees},
        b \in {c \in [1..Len(RemoveDirs) -> RemoveBranches] :
                  \A i, j \in 1..Len(RemoveDirs) :
                      i # j /\ c[i] = c[j] => c[i] = NoBranch}}

\* smart matching, as an index into filteredWorktrees (0: no match): find() by
\* branch name first, then find() by directory name
matchedWorktree(filtered, name) ==
    LET byBranch == {i \in 1..Len(filtered) : filtered[i].branch = name}
        byDirname == {i \in 1..Len(filtered) : basename(filtered[i].path) = name}
    IN  IF byBranch # {} THEN CHOOSE i \in byBranch : \A j \in byBranch : i <= j
        ELSE IF byDirname # {} THEN CHOOSE i \in byDirname : \A j \in byDirname : i <= j
        ELSE 0

\* what is true of a branch, whatever git answers when asked
PushTruth(r) ==
    [unpushed |-> r.hasUpstream /\ r.branch \ r.other # {},
     noUpstream |-> ~r.hasUpstream]

NotChecked == [hasUnpushed |-> FALSE, noRemote |-> FALSE]

\* a branch as it is, with what hasUnpushedCommits answers for it
PushFacts ==
    {[push |-> hasUnpushedCommits(r), truth |-> PushTruth(r)] : r \in RevListRepos}

\* the prompts
ChangesOptions(showedDiff) ==
    IF showedDiff THEN <<"remove", "abort">> ELSE <<"diff", "remove", "abort">>
BranchOptions == <<"delete", "keep", "abort">>

\* an answer of the operator; "cancel" is the symbol select() returns on Ctrl-C
Answer(prompt, action) == [prompt |-> prompt, action |-> action]

\* mutant of ChangesAnswer: Abort goes on with the removal
ChangesAnswer_AbortProceeds(action) ==
    IF action = "cancel" THEN "return"
    ELSE IF action = "diff" THEN "again"
    ELSE "proceed"

\* what the loop of the uncommitted-changes prompt does with an answer
ChangesAnswer(action) ==
    IF action \in {"cancel", "abort"} THEN "return"
    ELSE IF action = "diff" THEN "again"
    ELSE "proceed"

\* mutant of BranchAnswer: 'Keep branch' leaves options.keepBranch unset
BranchAnswer_KeepIgnored(action, o) ==
    [next |-> IF action \in {"cancel", "abort"} THEN "return" ELSE "proceed",
     options |-> o]

\* what the unpushed-commits prompt does with an answer
BranchAnswer(action, o) ==
    [next |-> IF action \in {"cancel", "abort"} THEN "return" ELSE "proceed",
     options |-> IF action = "keep" THEN [o EXCEPT !.keepBranch = TRUE] ELSE o]

\* the external calls of the removal, given which of them succeed, and whether
\* the handler ends in its catch
RemoveCalls(g, o, rmOk, fOk, prOk, brOk) ==
    LET fallback ==
            IF rmOk THEN <<>>
            ELSE <<Call("forceRemoveDirectory", g.path, TRUE, fOk, 1)>> \o
                 (IF fOk THEN <<Call("pruneWorktrees", g.path, FALSE, prOk, 1)>> ELSE <<>>)
        thrown == ~rmOk /\ ~(fOk /\ prOk)
        branch ==
            IF ~thrown /\ ~o.keepBranch /\ g.branch # "unknown"
            THEN <<Call("deleteBranch", g.branch, TRUE, brOk, 1)>>
            ELSE <<>>
    IN  [calls |-> <<Call("removeWorktree", g.path, TRUE, rmOk, 1)>> \o fallback \o branch,
         code |-> IF thrown THEN 1 ELSE 0]

RemoveInit ==
    /\ worktrees \in RemoveInventories
    /\ fs = [p \in {worktrees[i].path : i \in 1..Len(worktrees)} |-> "healthy"]
    /\ branches = {worktrees[i].branch : i \in 1..Len(worktrees)} \ {NoBranch}
    /\ currentPath = worktrees[1].path
    /\ precond \in {"ok", "git-failed"}
    /\ cmd = "remove"
    /\ options \in [keepBranch : BOOLEAN, force : BOOLEAN]
    /\ pc = "start"
    /\ gathered = <<>>
    /\ cleanable = <<>>
    /\ skipped = <<>>
    /\ toRemove = <<>>
    /\ choices = <<>>
    /\ selectedItems = <<>>
    /\ idx = 1
    /\ counters = ZeroCounters
    /\ ops = <<>>
    /\ exitCode = -1
    /\ output = <<>>
    /\ helper = "none"
    /\ args \in RemoveNames
    /\ ret = <<>>

\* the handler returns, or exits, having called nothing
Return(code) ==
    /\ Exit(code)
    /\ choices' = <<>>
    /\ UNCHANGED <<worktrees, fs, branches, options, ops>>

\* the handler waits at a prompt
Ask(prompt, opts) ==
    /\ pc' = prompt
    /\ choices' = opts
    /\ UNCHANGED <<worktrees, fs, branches, options, ops, exitCode>>

\* the primary worktree holds the repository: git does not remove it, and with
\* its directory deleted no git command succeeds
IsPrimary(path) == path = worktrees[1].path

\* from `Remove worktree` to the end of the handler
Execute(g, o) ==
    \E rmOk \in BOOLEAN, fOk \in BOOLEAN, prOk \in BOOLEAN, brOk \in BOOLEAN :
      /\ rmOk => CanRemoveWorktree(worktrees, fs, g.path) /\ ~IsPrimary(g.path)
      /\ prOk => ~IsPrimary(g.path)
      /\ brOk => g.branch \in branches
      /\ \E r \in {RemoveCalls(g, o, rmOk, fOk, prOk, brOk)} :
           /\ ops' = ops \o r.calls
           /\ worktrees' = RegistryAfterAll(worktrees, r.calls)
           /\ fs' = DiskAfterAll(fs, r.calls)
           /\ branches' = BranchesAfterAll(branches, r.calls)
           /\ Exit(r.code)
      /\ options' = o
      /\ choices' = <<>>

\* from the unpushed-commits test on
AfterChanges(g, o) ==
    IF (g.hasUnpushed \/ g.noRemote) /\ ~o.keepBranch /\ ~o.force
    THEN Ask("branch", BranchOptions)
    ELSE Execute(g, o)

\* from the inventory to the first prompt, or to the end if nothing is asked
RemoveFind ==
    /\ pc = "start"
    /\ cmd = "remove"
    /\ IF precond # "ok"
       THEN Return(1) /\ UNCHANGED gathered
       ELSE \E filtered \in {filteredWorktrees(worktrees)} :
            IF Len(filtered) = 0
            THEN Return(0) /\ UNCHANGED gathered
            ELSE \E m \in {matchedWorktree(filtered, args)} :
                 IF m = 0
                 THEN Return(1) /\ UNCHANGED gathered
                 ELSE \E status \in Statuses, fact \in PushFacts :
                      \E g \in {[path |-> filtered[m].path,
                                 dirname |-> basename(filtered[m].path),
                                 branch |-> IF filtered[m].branch # NoBranch
                                            THEN filtered[m].branch ELSE "unknown",
                                 uncommitted |-> hasUncommittedChanges(status),
                                 push |-> IF ~options.keepBranch
                                             /\ filtered[m].branch # NoBranch
                                          THEN fact.push ELSE NotChecked,
                                 truth |-> fact.truth]} :
                      \E h \in {[path |-> g.path, dirname |-> g.dirname,
                                 branch |-> g.branch, uncommitted |-> g.uncommitted,
                                 hasUnpushed |-> g.push.hasUnpushed,
                                 noRemote |-> g.push.noRemote, truth |-> g.truth]} :
                        /\ gathered' = h
                        /\ IF h.uncommitted /\ ~options.force
                           THEN Ask("changes", ChangesOptions(FALSE))
                           ELSE AfterChanges(h, options)
    /\ UNCHANGED <<currentPath, precond, cmd, cleanable, skipped, toRemove,
                   selectedItems, idx, counters, output, helperVars>>

\* the operator answers the uncommitted-changes prompt
RemoveAnswerChanges ==
    /\ pc = "changes"
    /\ \E action \in Range(choices) \cup {"cancel"} :
         /\ selectedItems' = Append(selectedItems, Answer("changes", action))
         /\ \E next \in {ChangesAnswer(action)} :
              IF next = "return" THEN Return(0)
              ELSE IF next = "again" THEN Ask("changes", ChangesOptions(TRUE))
              ELSE AfterChanges(gathered, options)
    /\ UNCHANGED <<currentPath, precond, cmd, gathered, cleanable, skipped, toRemove,
                   idx, counters, output, helperVars>>

\* the operator answers the unpushed-commits prompt
RemoveAnswerBranch ==
    /\ pc = "branch"
    /\ \E action \in Range(choices) \cup {"cancel"} :
         /\ selectedItems' = Append(selectedItems, Answer("branch", action))
         /\ \E a \in {BranchAnswer(action, options)} :
              IF a.next = "return" THEN Return(0)
              ELSE Execute(gathered, a.options)
    /\ UNCHANGED <<currentPath, precond, cmd, gathered, cleanable, skipped, toRemove,
                   idx, counters, output, helperVars>>

RemoveNext ==
    \/ RemoveFind
    \/ RemoveAnswerChanges
    \/ RemoveAnswerBranch

SpecRemove == RemoveInit /\ [][RemoveNext]_vars

----------------------------------------------------------------------------
(* C26 *)

\* remove has matched a worktree
Matched == cmd = "remove" /\ DOMAIN gathered # {}

Answered(prompt, action) ==
    \E i \in 1..Len(selectedItems) : selectedItems[i] = Answer(prompt, action)

Called(op) == \E i \in 1..Len(ops) : ops[i].op = op

\* nothing was called, and the matched worktree and its branch are as they were
NothingTouched ==
    /\ ops = <<>>
    /\ fs[gathered.path] = "healthy"
    /\ IsRegistered(worktrees, gathered.path)
    /\ gathered.branch # "unknown" => gathered.branch \in branches

\* the matched worktree is gone from the registry and from the disk
WorktreeRemoved ==
    /\ ~IsRegistered(worktrees, gathered.path)
    /\ fs[gathered.path] = "absent"

\* C26: without --force, when uncommitted changes were detected, any removal call
\* comes after the answer 'Discard changes and remove', and after 'Abort' or a
\* cancelled prompt nothing is removed, deleted or pruned.
C26_ChangesDiscardedOnlyOnRequest ==
    Matched /\ gathered.uncommitted /\ ~options.force =>
        /\ ops # <<>> => Answered("changes", "remove")
        /\ Answered("changes", "abort") \/ Answered("changes", "cancel") => NothingTouched

\* the operator looked at the diff, chose to discard, and the worktree is gone
C26_Witness ==
    /\ Matched /\ gathered.uncommitted /\ ~options.force
    /\ Answered("changes", "diff")
    /\ Answered("changes", "remove")
    /\ exitCode = 0
    /\ WorktreeRemoved

----------------------------------------------------------------------------
(* C27 *)

\* --keep-branch was on the command line ('Keep branch' sets the same option)
KeepBranchGiven == options.keepBranch /\ ~Answered("branch", "keep")

\* the matched worktree's branch has commits its upstream lacks, or no upstream
Unpushed == gathered.truth.unpushed \/ gathered.truth.noUpstream

\* C27: without --force and --keep-branch, a branch with unpushed commits or
\* without an upstream is deleted only after 'Delete branch anyway'; after 'Keep
\* branch' the worktree's removal is made (and, unless the handler ends in an
\* error, the worktree is gone) and the branch stays; after 'Abort' or a
\* cancelled prompt nothing is touched; with --keep-branch the branch is never
\* deleted.
C27_BranchDeletedOnlyOnRequest ==
    /\ Matched /\ ~options.force /\ ~KeepBranchGiven /\ Unpushed
       /\ gathered.branch # "unknown" =>
          /\ Called("deleteBranch") => Answered("branch", "delete")
          /\ Answered("branch", "keep") =>
                /\ Called("removeWorktree")
                /\ exitCode = 0 => WorktreeRemoved
                /\ ~Called("deleteBranch")
                /\ gathered.branch \in branches
          /\ Answered("branch", "abort") \/ Answered("branch", "cancel") => NothingTouched
    /\ Matched /\ KeepBranchGiven =>
          /\ ~Called("deleteBranch")
          /\ gathered.branch # "unknown" => gathered.branch \in branches

\* a branch with unpushed commits is kept on request and its worktree is gone
C27_Witness ==
    /\ Matched /\ ~options.force
    /\ gathered.truth.unpushed
    /\ Answered("branch", "keep")
    /\ exitCode = 0
    /\ WorktreeRemoved
    /\ gathered.branch \in branches

----------------------------------------------------------------------------
(* C30 *)

\* C30: remove never matches the primary worktree, whatever the inventory and the
\* name: no call is made on its path or its branch and its directory stays.
C30_PrimaryNeverMatched ==
    cmd = "remove" =>
        /\ Matched => ~IsPrimary(gathered.path)
        /\ \A i \in 1..Len(ops) : ops[i].arg \notin {worktrees[1].path, worktrees[1].branch}
        /\ fs[worktrees[1].path] = "healthy"

====
